---- MODULE Spec2Model ----
(***************************************************************************)
(* A model of PParser (src/src/p2m/parser.py): the classical staff-line    *)
(* and note segmentation pipeline of PicToMusic.                           *)
(*                                                                         *)
(* An image is a record [h, w, on]: its height, its width and the set of   *)
(* its pixels <<x, y>> of value 255; every other pixel has value 0 (the    *)
(* model's pages are two-level rasters, so the fixed threshold 127 of      *)
(* find_contours separates exactly `on` from the rest).  A contour is the  *)
(* sequence of its points <<x, y>>, as cv2 returns it.                     *)
(***************************************************************************)
EXTENDS Integers, Sequences, FiniteSets, TLC

(***************************************************************************)
(* Bounds of the model.                                                    *)
(***************************************************************************)
PageW == 7
PageH == 5
MaxMarks == 2
MaxDilate == 1
MaxMinArea == 2
MaxPad == 1
MaxFindNotes == 2
MaxGroupInputs == 3

----------------------------------------------------------------------------
(* Small helpers.                                                          *)

Min(S) == CHOOSE m \in S : \A n \in S : m <= n
Max(S) == CHOOSE m \in S : \A n \in S : m >= n
Abs(n) == IF n < 0 THEN -n ELSE n
Range(f) == {f[i] : i \in DOMAIN f}

Grid(h, w) == {<<x, y>> : x \in 0..(w - 1), y \in 0..(h - 1)}

Image(h, w, on) == [h |-> h, w |-> w, on |-> on]

\* The first pixel of a non-empty set in raster order (row by row, left to right).
RasterFirst(S) ==
    LET y0 == Min({p[2] : p \in S})
        x0 == Min({p[1] : p \in {q \in S : q[2] = y0}})
    IN  <<x0, y0>>

----------------------------------------------------------------------------
(* numpy and cv2 primitives, modelled by what they compute.                *)

\* numpy's a[lo:hi] on an axis of length n: negative bounds count from the
\* end, and both are clipped to 0..n.  The result is the pair <<first, stop>>.
PySlice(lo, hi, n) ==
    LET clip(v) == IF v < 0 THEN (IF v + n < 0 THEN 0 ELSE v + n)
                   ELSE (IF v > n THEN n ELSE v)
        a == clip(lo)
        b == clip(hi)
    IN  <<a, IF b < a THEN a ELSE b>>

\* img[y:y+h, x:x+w]
Crop(img, x, y, w, h) ==
    LET xs == PySlice(x, x + w, img.w)
        ys == PySlice(y, y + h, img.h)
    IN  Image(ys[2] - ys[1], xs[2] - xs[1],
              {<<p[1] - xs[1], p[2] - ys[1]>> :
                  p \in {q \in img.on : /\ q[1] >= xs[1] /\ q[1] < xs[2]
                                        /\ q[2] >= ys[1] /\ q[2] < ys[2]}})

\* cv2.bitwise_not on a two-level raster
bitwise_not(img) == Image(img.h, img.w, Grid(img.h, img.w) \ img.on)

\* cv2.bitwise_and(a, a, mask=m)
bitwise_and(img, mask) == Image(img.h, img.w, img.on \cap mask.on)

\* cv2.subtract(a, b), saturating at 0
subtract(a, b) == Image(a.h, a.w, a.on \ b.on)

\* cv2.dilate with the 3x3 rectangular kernel, n iterations: a pixel is set
\* when a set pixel lies within Chebyshev distance n of it.
dilate(img, n) ==
    IF n <= 0 THEN img
    ELSE Image(img.h, img.w,
               {p \in Grid(img.h, img.w) :
                   \E q \in img.on : /\ Abs(p[1] - q[1]) <= n
                                     /\ Abs(p[2] - q[2]) <= n})

\* The 4- and the 8-neighbours of a pixel.
Nbr4(p) == {<<p[1] - 1, p[2]>>, <<p[1] + 1, p[2]>>,
            <<p[1], p[2] - 1>>, <<p[1], p[2] + 1>>}
Nbr8(p) == {<<p[1] + dx, p[2] + dy>> : dx \in -1..1, dy \in -1..1} \ {p}

\* The pixels of S connected to the front F, R being those reached already.
RECURSIVE Reach8(_, _, _)
Reach8(F, R, S) ==
    LET N == (UNION {Nbr8(p) : p \in F} \cap S) \ R
    IN  IF N = {} THEN R ELSE Reach8(N, R \cup N, S)

RECURSIVE Reach4(_, _, _)
Reach4(F, R, S) ==
    LET N == (UNION {Nbr4(p) : p \in F} \cap S) \ R
    IN  IF N = {} THEN R ELSE Reach4(N, R \cup N, S)

\* The 8-connected components of a pixel set, in the order a raster scan
\* meets them.
RECURSIVE Components(_)
Components(S) ==
    IF S = {} THEN << >>
    ELSE LET c == Reach8({RasterFirst(S)}, {RasterFirst(S)}, S)
         IN  <<c>> \o Components(S \ c)

\* The background that is 4-connected to the outside of the image.
OuterBackground(img) ==
    LET bg   == Grid(img.h, img.w) \ img.on
        rim  == {p \in bg : \/ p[1] = 0 \/ p[1] = img.w - 1
                            \/ p[2] = 0 \/ p[2] = img.h - 1}
    IN  Reach4(rim, rim, bg)

\* RETR_EXTERNAL: a component is kept when it is not inside a hole of
\* another one, i.e. when it borders the outer background.
IsExternal(c, img, outer) ==
    \E p \in c : \/ p[1] = 0 \/ p[1] = img.w - 1
                 \/ p[2] = 0 \/ p[2] = img.h - 1
                 \/ Nbr4(p) \cap outer # {}

\* The eight chain-code directions of cv2's border following.
Delta(s) ==
    CASE s = 0 -> <<1, 0>>   [] s = 1 -> <<1, -1>> [] s = 2 -> <<0, -1>>
      [] s = 3 -> <<-1, -1>> [] s = 4 -> <<-1, 0>> [] s = 5 -> <<-1, 1>>
      [] s = 6 -> <<0, 1>>   [] s = 7 -> <<1, 1>>
Step(p, s) == <<p[1] + Delta(s)[1], p[2] + Delta(s)[2]>>

\* Border following of one component (Suzuki-Abe, as cv2.findContours does
\* it) with CHAIN_APPROX_SIMPLE: a border point is kept when the chain code
\* changes at it.
RECURSIVE Follow(_, _, _, _, _, _, _)
Follow(c, i0, i1, i3, s, prev_s, acc) ==
    LET k   == Min({j \in 1..8 : Step(i3, (s + j) % 8) \in c})
        s2  == (s + k) % 8
        i4  == Step(i3, s2)
        out == IF s2 # prev_s THEN Append(acc, i3) ELSE acc
    IN  IF i4 = i0 /\ i3 = i1 THEN out
        ELSE Follow(c, i0, i1, i4, (s2 + 4) % 8, s2, out)

TraceContour(c) ==
    LET i0   == RasterFirst(c)
        \* clockwise from the left neighbour: 3, 2, 1, 0, 7, 6, 5
        scan == <<3, 2, 1, 0, 7, 6, 5>>
        hits == {j \in 1..7 : Step(i0, scan[j]) \in c}
    IN  IF hits = {} THEN <<i0>>
        ELSE LET s == scan[Min(hits)]
             IN  Follow(c, i0, Step(i0, s), i0, s, (s + 4) % 8, << >>)

\* cv2.findContours(img, RETR_EXTERNAL, CHAIN_APPROX_SIMPLE): cv2 returns the
\* contours in the reverse of the order the raster scan starts them.
RECURSIVE Reverse(_)
Reverse(s) == IF s = << >> THEN << >> ELSE Reverse(Tail(s)) \o <<Head(s)>>

findContours(img) ==
    LET comps == Components(img.on)
        outer == OuterBackground(img)
        ext   == SelectSeq(comps, LAMBDA c : IsExternal(c, img, outer))
    IN  Reverse([i \in DOMAIN ext |-> TraceContour(ext[i])])

\* cv2.boundingRect: <<x, y, w, h>> of the points of a contour
boundingRect(c) ==
    LET xs == {c[i][1] : i \in DOMAIN c}
        ys == {c[i][2] : i \in DOMAIN c}
    IN  <<Min(xs), Min(ys), Max(xs) - Min(xs) + 1, Max(ys) - Min(ys) + 1>>

\* Twice cv2.contourArea (the shoelace formula over the contour's points).
RECURSIVE Shoelace(_, _)
Shoelace(c, i) ==
    IF i > Len(c) THEN 0
    ELSE LET a == c[i]
             b == c[(i % Len(c)) + 1]
         IN  a[1] * b[2] - b[1] * a[2] + Shoelace(c, i + 1)

contourArea2(c) == Abs(Shoelace(c, 1))

\* cv2.drawContours(mask, [c], -1, 255, -1): the polygon of the contour,
\* border and inside (even-odd rule), clipped to the mask.
Between(v, a, b) == (a <= v /\ v <= b) \/ (b <= v /\ v <= a)

OnSegment(p, a, b) ==
    /\ Between(p[1], a[1], b[1])
    /\ Between(p[2], a[2], b[2])
    /\ (b[1] - a[1]) * (p[2] - a[2]) = (b[2] - a[2]) * (p[1] - a[1])

Crosses(p, a, b) ==
    /\ (a[2] > p[2]) # (b[2] > p[2])
    /\ IF b[2] > a[2]
       THEN (p[1] - a[1]) * (b[2] - a[2]) < (p[2] - a[2]) * (b[1] - a[1])
       ELSE (p[1] - a[1]) * (b[2] - a[2]) > (p[2] - a[2]) * (b[1] - a[1])

drawContours(h, w, c) ==
    LET n      == Len(c)
        nxt(i) == c[(i % n) + 1]
    IN  Image(h, w,
              {p \in Grid(h, w) :
                  \/ \E i \in 1..n : OnSegment(p, c[i], nxt(i))
                  \/ Cardinality({i \in 1..n : Crosses(p, c[i], nxt(i))}) % 2 = 1})

\* cnt[:, :, 0] += dx; cnt[:, :, 1] += dy
Shift(c, dx, dy) == [i \in DOMAIN c |-> <<c[i][1] + dx, c[i][2] + dy>>]

\* Python's sorted(s, key=...), with keys[i] the key of s[i]: ascending and
\* stable (equal keys keep their order in s).
sorted(s, keys) ==
    LET rank(i) == Cardinality({m \in DOMAIN s :
                       \/ keys[m] < keys[i]
                       \/ keys[m] = keys[i] /\ m <= i})
    IN  [j \in DOMAIN s |-> s[CHOOSE i \in DOMAIN s : rank(i) = j]]

\* The sort keys of the source: cv2.boundingRect(c)[0] and [1].
KeyX(cnts) == [i \in DOMAIN cnts |-> boundingRect(cnts[i])[1]]
KeyY(cnts) == [i \in DOMAIN cnts |-> boundingRect(cnts[i])[2]]

----------------------------------------------------------------------------
(* PParser's helpers.                                                      *)

\* PParser._add_padding: a border of value 255 on all four sides.
add_padding(img, pad_size) ==
    IF pad_size > 0
    THEN Image(img.h + 2 * pad_size, img.w + 2 * pad_size,
               {<<p[1] + pad_size, p[2] + pad_size>> : p \in img.on}
               \cup {p \in Grid(img.h + 2 * pad_size, img.w + 2 * pad_size) :
                        \/ p[1] < pad_size \/ p[1] >= img.w + pad_size
                        \/ p[2] < pad_size \/ p[2] >= img.h + pad_size})
    ELSE img

\* imutils.contours.sort_contours(cnts): left to right by the x of the
\* bounding box; it unpacks zip(*sorted(...)) into two names, which raises
\* ValueError when cnts is empty.
sort_contours(cnts) ==
    IF cnts = << >>
    THEN [err |-> "ValueError", cnts |-> << >>]
    ELSE [err |-> "", cnts |-> sorted(cnts, KeyX(cnts))]

\* (a faulty variant, for sensitivity: the filter keeps a contour of area equal to the threshold)
AreaAbove_inclusive(c, min_contour_area) == contourArea2(c) >= 2 * min_contour_area

\* The comparison of line 139: cv2.contourArea(c) > min_contour_area.
AreaAbove(c, min_contour_area) == contourArea2(c) > 2 * min_contour_area

\* The test of line 141 and the shift of lines 142-144.
Unpad(c, pad_size) == IF pad_size # 0 THEN Shift(c, -pad_size, -pad_size) ELSE c

\* PParser.find_contours
find_contours(img, dilate_iterations, min_contour_area, pad_size) ==
    LET padded_image  == add_padding(img, pad_size)
        dilated_image == dilate(padded_image, dilate_iterations)
        found         == findContours(dilated_image)
        kept          == SelectSeq(found, LAMBDA c : AreaAbove(c, min_contour_area))
        shifted       == [i \in DOMAIN kept |-> Unpad(kept[i], pad_size)]
    IN  sort_contours(shifted)

\* PParser.remove_staff_lines: an opening with a LineKernelW x 1 kernel
\* (anchor at its centre), OpenIterations erosions and then as many
\* dilations, subtracted from the image.  Pixels outside the image do not
\* constrain an erosion and do not feed a dilation.
LineKernelW == 100
OpenIterations == 3

Window(x, w) == {c \in 0..(w - 1) : /\ c >= x - (LineKernelW \div 2)
                                    /\ c <= x + (LineKernelW - 1) - (LineKernelW \div 2)}

ErodeH(img) ==
    Image(img.h, img.w,
          {p \in img.on : \A c \in Window(p[1], img.w) : <<c, p[2]>> \in img.on})

DilateH(img) ==
    Image(img.h, img.w,
          {p \in Grid(img.h, img.w) :
              \E c \in Window(p[1], img.w) : <<c, p[2]>> \in img.on})

RECURSIVE Times(_, _, _)
Times(n, img, erode) ==
    IF n = 0 THEN img
    ELSE Times(n - 1, IF erode THEN ErodeH(img) ELSE DilateH(img), erode)

remove_staff_lines(img) ==
    LET detected_lines == Times(OpenIterations,
                                Times(OpenIterations, img, TRUE), FALSE)
    IN  subtract(img, detected_lines)

\* PParser.extract_element: self.image[y:y+h, x:x+w]
extract_element(img, bounds) ==
    Crop(img, bounds[1], bounds[2], bounds[3], bounds[4])

\* (a faulty variant, for sensitivity: every axis is accepted, any other than 0 sorting top to bottom)
AxisError_none(axis) == FALSE

\* Lines 434-439: the axis is neither 0 nor 1.
AxisError(axis) == axis # 0 /\ axis # 1

\* Lines 445-449: image[0:img_height, x:x+w] or image[y:y+h, x:x+w]
Region(img, rect, full_height) ==
    IF full_height THEN Crop(img, rect[1], 0, rect[3], img.h)
    ELSE Crop(img, rect[1], rect[2], rect[3], rect[4])

\* PParser.extract_contours
extract_contours(img, contours, axis, full_height) ==
    IF AxisError(axis) THEN [err |-> "ValueError", regions |-> << >>]
    ELSE [err |-> "",
          regions |->
              [i \in DOMAIN contours |->
                  Region(img,
                         boundingRect(sorted(contours,
                                             IF axis = 0 THEN KeyX(contours)
                                             ELSE KeyY(contours))[i]),
                         full_height)]]

\* PParser.__merge_group: a group is a sequence of <<contour, rect>>.
merge_group(group) ==
    IF Len(group) = 1 THEN group[1][1]
    ELSE LET rects == {group[i][2] : i \in DOMAIN group}
             x_min == Min({r[1] : r \in rects})
             y_min == Min({r[2] : r \in rects})
             x_max == Max({r[1] + r[3] : r \in rects})
             y_max == Max({r[2] + r[4] : r \in rects})
         IN  << <<x_min, y_min>>, <<x_max, y_min>>,
                <<x_max, y_max>>, <<x_min, y_max>> >>

\* Lines 290-311 for one member of the current group.  overlap_threshold
\* is given in tenths (2 stands for 0.2), so ratio > threshold is
\* intersection * 10 > threshold * area.
MemberMatches(rect, group_rect, horizontal_dist, max_horizontal_distance, overlap_threshold) ==
    LET x  == rect[1]        y  == rect[2]
        w  == rect[3]        h  == rect[4]
        gx == group_rect[1]  gy == group_rect[2]
        gw == group_rect[3]  gh == group_rect[4]
        vertical_overlap == (y <= gy + gh) /\ (gy <= y + h)
        x_left   == Max({x, gx})
        y_top    == Max({y, gy})
        x_right  == Min({x + w, gx + gw})
        y_bottom == Min({y + h, gy + gh})
        intersection_area == (x_right - x_left) * (y_bottom - y_top)
        area1 == w * h
        area2 == gw * gh
        ratio1_above == area1 > 0 /\ intersection_area * 10 > overlap_threshold * area1
        ratio2_above == area2 > 0 /\ intersection_area * 10 > overlap_threshold * area2
        zero_above   == (area1 <= 0 \/ area2 <= 0) /\ 0 > overlap_threshold
    IN  /\ vertical_overlap
        /\ x_right >= x_left /\ y_bottom >= y_top
        /\ \/ ratio1_above \/ ratio2_above \/ zero_above
           \/ horizontal_dist <= max_horizontal_distance

\* (a faulty variant, for sensitivity: the current group is never closed)
Closes_never(horizontal_dist, should_merge, max_horizontal_distance) == FALSE

\* Lines 282 and 313-318: a contour closes the current group when it lies
\* further than max_horizontal_distance from the right edge of the group's
\* last member, or when no member of the group matched it.
Closes(horizontal_dist, should_merge, max_horizontal_distance) ==
    horizontal_dist > max_horizontal_distance \/ ~should_merge

\* (a faulty variant, for sensitivity: the group still open after the loop is not emitted)
Flushed_dropping(groups, current_group) == groups

\* Lines 320-321: the group still open after the loop is emitted.
Flushed(groups, current_group) == IF current_group # << >> THEN Append(groups, current_group) ELSE groups

\* The loop of lines 270-318 from position i of sorted_contours on; the
\* result is the sequence of groups, the last one being the open group.
RECURSIVE GroupLoop(_, _, _, _, _, _)
GroupLoop(sorted_contours, i, groups, current_group, max_horizontal_distance, overlap_threshold) ==
    IF i > Len(sorted_contours)
    THEN Flushed(groups, current_group)
    ELSE
      LET contour == sorted_contours[i]
          rect    == boundingRect(contour)
          entry   == <<contour, rect>>
          last    == current_group[Len(current_group)][2]
          horizontal_dist == rect[1] - (last[1] + last[3])
          should_merge ==
              \E m \in DOMAIN current_group :
                  MemberMatches(rect, current_group[m][2], horizontal_dist,
                                max_horizontal_distance, overlap_threshold)
          \* the contour opens the first group (lines 274-276)
          opens  == current_group = << >>
          \* the contour closes the current group and opens the next one
          \* (lines 282-286 and 315-318)
          closes == /\ ~opens
                    /\ Closes(horizontal_dist, should_merge,
                              max_horizontal_distance)
      IN  GroupLoop(sorted_contours, i + 1,
                    IF closes THEN Append(groups, current_group) ELSE groups,
                    IF opens \/ closes THEN <<entry>>
                    ELSE Append(current_group, entry),
                    max_horizontal_distance, overlap_threshold)

\* The groups group_note_components forms, each a sequence of <<contour, rect>>.
Groups(contours, max_horizontal_distance, overlap_threshold) ==
    IF contours = << >> THEN << >>
    ELSE GroupLoop(sorted(contours, KeyX(contours)), 1, << >>, << >>,
                   max_horizontal_distance, overlap_threshold)

\* PParser.group_note_components
group_note_components(contours, max_horizontal_distance, overlap_threshold) ==
    LET groups == Groups(contours, max_horizontal_distance, overlap_threshold)
    IN  [g \in DOMAIN groups |-> merge_group(groups[g])]

----------------------------------------------------------------------------
(* The data model (src/src/p2m/scoretyping.py) and the two segmenters.     *)

StaffLine(index, img, contour, bounds) ==
    [index |-> index, image |-> img, contour |-> contour, bounds |-> bounds,
     notes |-> << >>]

Note(index, relative_index, line_index, img, contour, bounds, relative_position, absolute_position) ==
    [index |-> index, relative_index |-> relative_index,
     line_index |-> line_index, image |-> img, contour |-> contour,
     bounds |-> bounds, relative_position |-> relative_position,
     absolute_position |-> absolute_position, label |-> "None"]

\* (a faulty variant, for sensitivity: the contours keep find_contours' left-to-right order)
StaffOrder_unsorted(staff_line_contours) == staff_line_contours

\* The order in which find_staff_lines numbers the contours (line 161).
StaffOrder(staff_line_contours) ==
    sorted(staff_line_contours, KeyY(staff_line_contours))

\* PParser.find_staff_lines, on the parser's image and processed_image.
find_staff_lines(img, processed, dilate_iterations, min_contour_area, pad_size) ==
    LET r == find_contours(processed, dilate_iterations, min_contour_area, pad_size)
        ordered == StaffOrder(r.cnts)
    IN  IF r.err # "" THEN [err |-> r.err, staff_lines |-> << >>]
        ELSE [err |-> "",
              staff_lines |->
                  [i \in DOMAIN ordered |->
                      StaffLine(i - 1,
                                extract_element(img, boundingRect(ordered[i])),
                                ordered[i],
                                boundingRect(ordered[i]))]]

\* The parameters of one find_notes call.
NoteParams(d, a, p, mhd, thr) ==
    [dilate_iterations |-> d, min_contour_area |-> a, pad_size |-> p,
     max_horizontal_distance |-> mhd, overlap_threshold |-> thr]

\* Lines 195-202: the cleaned image, masked by the staff's filled contour
\* and cropped to the staff's bounding rectangle.
LineImage(cleaned, contour) ==
    LET mask == drawContours(cleaned.h, cleaned.w, contour)
        r    == boundingRect(contour)
    IN  bitwise_and(Crop(cleaned, r[1], r[2], r[3], r[4]),
                    Crop(mask, r[1], r[2], r[3], r[4]))

\* Line 232: the line_index a note gets, from the position of its staff in
\* the list passed to find_notes (enumerate) and the staff itself.
LineIndexOf(position, staff_line) == position

\* (a faulty variant, for sensitivity: enumerate counting from 1)
RelativeIndexOf_one_based(position) == position + 1

\* Line 216: the relative_index of the note at a position of note_contours.
RelativeIndexOf(position) == position

\* (a faulty variant, for sensitivity: the counter starts again at every staff)
IndexAfter_per_staff(global_index, n) == n

\* Lines 191, 230 and 240: the value of global_index after n more notes.
IndexAfter(global_index, n) == global_index + n

\* (a faulty variant, for sensitivity: the staff's offset is left out)
AbsolutePos_local(x, y, note_bounds) == <<note_bounds[1], note_bounds[2]>>

\* Line 219: absolute_pos
AbsolutePos(x, y, note_bounds) == <<x + note_bounds[1], y + note_bounds[2]>>

\* Lines 216-238: the Note of one grouped contour.
MakeNote(img, staff_line, line_index, x, y, note_contour, relative_index, global_index) ==
    LET note_bounds  == boundingRect(note_contour)
        relative_pos == <<note_bounds[1], note_bounds[2]>>
        absolute_pos == AbsolutePos(x, y, note_bounds)
        bounds == <<note_bounds[1] + x, note_bounds[2] + y,
                    note_bounds[3], note_bounds[4]>>
        full_height_bounds == <<bounds[1], y, bounds[3], staff_line.bounds[4]>>
    IN  Note(global_index, relative_index, line_index,
             extract_element(img, full_height_bounds),
             Shift(note_contour, x, y), bounds, relative_pos, absolute_pos)

\* Lines 216-240 for the sorted note contours of one staff: its new notes.
StaffNotes(img, staff_line, line_index, x, y, note_contours, global_index) ==
    [j \in DOMAIN note_contours |->
        MakeNote(img, staff_line, line_index, x, y, note_contours[j],
                 RelativeIndexOf(j - 1), IndexAfter(global_index, j - 1))]

\* Lines 213-214: sorted(note_contours, key=lambda c: cv2.boundingRect(c)[0])
SortedByX(note_contours) == sorted(note_contours, KeyX(note_contours))

\* Lines 209-240 for one staff, `found` being what find_contours gave for
\* its line image and rect the bounding rectangle of its contour.
NotesFound(img, staff_line, line_index, rect, found, global_index, prm) ==
    IF found.err # "" THEN [err |-> found.err, notes |-> << >>]
    ELSE [err |-> "",
          notes |-> StaffNotes(img, staff_line, line_index, rect[1], rect[2],
                        SortedByX(group_note_components(found.cnts,
                                      prm.max_horizontal_distance,
                                      prm.overlap_threshold)),
                        global_index)]

\* Lines 195-240 for one staff of the list passed in.
NotesOfStaff(img, cleaned, staff_line, line_index, global_index, prm) ==
    NotesFound(img, staff_line, line_index, boundingRect(staff_line.contour),
               find_contours(LineImage(cleaned, staff_line.contour),
                             prm.dilate_iterations, prm.min_contour_area,
                             prm.pad_size),
               global_index, prm)

\* (a faulty variant, for sensitivity: the notes held are renumbered to follow the notes found)
Appended_renumbering(notes, found) == [i \in DOMAIN notes |-> [notes[i] EXCEPT !.index = @ + Len(found)]] \o found

\* Line 239, for all the notes found in a staff: staff_line.notes.append(note)
Appended(notes, found) == notes \o found

\* The loop of lines 193-240 from position k of the list passed in.  `heap`
\* holds the StaffLine objects (the caller's collection), `sel` the list
\* passed to find_notes as positions in it.  A ValueError of find_contours
\* ends the call and leaves the notes appended so far.
RECURSIVE NotesLoop(_, _, _, _, _, _, _)
NotesLoop(heap, sel, k, global_index, img, cleaned, prm) ==
    IF k > Len(sel) THEN [err |-> "", heap |-> heap, cleaned |-> cleaned]
    ELSE
      LET r == NotesOfStaff(img, cleaned, heap[sel[k]],
                            LineIndexOf(k - 1, heap[sel[k]]), global_index, prm)
      IN  IF r.err # ""
          THEN [err |-> r.err, heap |-> heap, cleaned |-> cleaned]
          ELSE NotesLoop([heap EXCEPT ![sel[k]].notes = Appended(@, r.notes)],
                         sel, k + 1, IndexAfter(global_index, Len(r.notes)),
                         img, cleaned, prm)

\* PParser.find_notes
find_notes(heap, sel, img, processed, prm) ==
    NotesLoop(heap, sel, 1, 0, img, remove_staff_lines(processed), prm)

----------------------------------------------------------------------------
(* The pages given to load_image: white paper (255) with ink (0).  The ink *)
(* of a page is the union of at most MaxMarks of the marks below.          *)

Rect(x, y, w, h) == {<<a, b>> : a \in x..(x + w - 1), b \in y..(y + h - 1)}

Marks == <<
    Rect(0, 0, 1, 5) \cup Rect(0, 4, 4, 1),       \* an L: a stem and a foot
    Rect(2, 1, 2, 2),                             \* a blob inside the L's corner
    Rect(5, 1, 2, 2),                             \* a blob with the same top, to the right
    Rect(2, 3, 2, 2),                             \* a blob lower and further left
    \* a ruling line across the page with two one-pixel heads sitting on it
    Rect(0, 1, PageW, 1) \cup Rect(0, 0, 1, 1) \cup Rect(5, 0, 1, 1),
    Rect(0, 4, PageW, 1) \cup Rect(0, 3, 1, 1) \cup Rect(PageW - 1, 3, 1, 1) >>

Inks == {UNION {Marks[i] : i \in S} :
            S \in {T \in SUBSET DOMAIN Marks : Cardinality(T) <= MaxMarks}}

Pages == {Image(PageH, PageW, Grid(PageH, PageW) \ ink) : ink \in Inks}

\* The parameter values find_contours is called with on its own.
DilateIterations == 0..MaxDilate
MinContourAreas  == -1..MaxMinArea
PadSizes         == -1..MaxPad
\* The parameter values find_staff_lines and find_notes are called with:
\* each of dilate_iterations, min_contour_area and pad_size off, and on.
StageDilate  == {0, 1}
StageMinArea == {0, 1}
StagePad     == {0, 1}
\* <<max_horizontal_distance, overlap_threshold in tenths>>: the defaults of
\* find_notes (2, 0.2) and those of group_note_components (10, 0.8).
Groupings        == {<<2, 2>>, <<10, 8>>}

\* The lists a caller can pass to find_notes, as positions in its collection
\* of n staff lines: any slice of it, and the whole of it reversed.
Selections(n) ==
    {[k \in 1..(j - i + 1) |-> i + k - 1] : i \in 1..(n + 1), j \in 0..n}
    \cup {[k \in 1..n |-> n + 1 - k]}

----------------------------------------------------------------------------
(* The parser and its caller.                                              *)

\* An attribute that has not been set, or that holds None.
None == Image(-1, -1, {})

\* What cv2.imread gives for a file holding a gray page: an array of three
\* equal channels. A two-dimensional array has no channels field.
Colour(img) == [h |-> img.h, w |-> img.w, on |-> img.on, channels |-> 3]

\* len(img.shape)
Ndim(img) == IF "channels" \in DOMAIN img THEN 3 ELSE 2

\* cv2.cvtColor(img, cv2.COLOR_BGR2GRAY)
cvtColor(img) == Image(img.h, img.w, img.on)

\* What a cv2 function hands back to Python: None for a result of no pixels.
pyopencv_from(img) == IF img.h = 0 \/ img.w = 0 THEN None ELSE img

\* The values load_image is given: an array, a path (with what cv2.imread
\* returns for it, None when the file cannot be read) and any other value.
ArrayInput(img) == [type |-> "ndarray", value |-> img]
PathInput(decoded) == [type |-> "str", value |-> decoded]
OtherInput == [type |-> "int", value |-> None]

\* Lines 37-43 of load_image, once original_image is set.
Preprocess(original, gray) ==
    [err |-> "", original_image |-> original, image |-> gray,
     processed_image |-> pyopencv_from(bitwise_not(gray))]

\* PParser.load_image; self holds the three attributes before the call.
load_image(self, input_source) ==
    IF input_source.type = "str"
    THEN IF input_source.value = None
         THEN [err |-> "FileNotFoundError", original_image |-> None,
               image |-> self.image, processed_image |-> self.processed_image]
         ELSE Preprocess(input_source.value,
                         IF Ndim(input_source.value) = 3
                         THEN cvtColor(input_source.value)
                         ELSE input_source.value)
    ELSE IF input_source.type = "ndarray"
    THEN Preprocess(input_source.value,
                    IF Ndim(input_source.value) = 3
                    THEN cvtColor(input_source.value)
                    ELSE input_source.value)
    ELSE [err |-> "TypeError", original_image |-> self.original_image,
          image |-> self.image, processed_image |-> self.processed_image]

\* img.shape
Shape(img) ==
    IF "channels" \in DOMAIN img THEN <<img.h, img.w, img.channels>>
    ELSE <<img.h, img.w>>

\* A raster that cv2 drawing functions have painted on: the array they were
\* given, and the drawing calls made on it in order.  cv2 draws in place and
\* clips to the array, so the pixels change and the shape does not.
Painted(base, strokes) ==
    [f \in DOMAIN base \cup {"strokes"} |->
        IF f = "strokes" THEN strokes ELSE base[f]]

\* One drawing call: the function, its points, its colour (BGR), its
\* thickness, and the text for cv2.putText.
Stroke(fn, pts, colour, thickness, text) == [fn |-> fn, pts |-> pts, colour |-> colour, thickness |-> thickness, text |-> text]

\* (a faulty variant, for sensitivity: the drawing is made on the array itself)
AfterDrawing_inplace(source, painted) == painted

\* orig = image.copy() (line 389) and result = self.original_image.copy()
\* (line 492): the drawing goes to a copy, the array copied keeps its value.
AfterDrawing(source, painted) == source

\* cv2.rectangle(result, (x, y), (x + w, y + h), colour, 2)
RectangleStroke(b, colour) == Stroke("rectangle", <<<<b[1], b[2]>>, <<b[1] + b[3], b[2] + b[4]>>>>, colour, 2, "")

\* The show_* arguments of draw_staff_lines.
ShowFlags ==
    [staff_bounds : BOOLEAN, staff_contours : BOOLEAN,
     note_bounds : BOOLEAN, note_contours : BOOLEAN]

\* Lines 503-511 for the notes of a staff from position j.
RECURSIVE NoteStrokes(_, _, _)
NoteStrokes(notes, j, show) ==
    IF j > Len(notes) THEN << >>
    ELSE (IF show.note_bounds
          THEN <<RectangleStroke(notes[j].bounds, <<255, 0, 0>>),
                 Stroke("putText", <<<<notes[j].bounds[1], notes[j].bounds[2]>>>>,
                        <<0, 0, 0>>, 1, ToString(notes[j].index))>>
          ELSE << >>)
         \o (IF show.note_contours
             THEN <<Stroke("drawContours", notes[j].contour, <<0, 0, 255>>, 1, "")>>
             ELSE << >>)
         \o NoteStrokes(notes, j + 1, show)

\* Lines 494-511 for the staff lines from position i.
RECURSIVE StaffStrokes(_, _, _)
StaffStrokes(lines, i, show) ==
    IF i > Len(lines) THEN << >>
    ELSE (IF show.staff_bounds
          THEN <<RectangleStroke(lines[i].bounds, <<0, 255, 0>>)>>
          ELSE << >>)
         \o (IF show.staff_contours
             THEN <<Stroke("drawContours", lines[i].contour, <<0, 255, 0>>, 1, "")>>
             ELSE << >>)
         \o NoteStrokes(lines[i].notes, 1, show)
         \o StaffStrokes(lines, i + 1, show)

\* PParser.draw_staff_lines(image, lines, show...): the raster returned, and
\* self.original_image after the call.
draw_staff_lines(original, lines, show) ==
    IF original = None
    THEN [err |-> "AttributeError", result |-> None, original_image |-> original]
    ELSE [err |-> "",
          result |-> Painted(original, StaffStrokes(lines, 1, show)),
          original_image |->
              AfterDrawing(original, Painted(original, StaffStrokes(lines, 1, show)))]

\* Lines 390-413 for the contours from position i: the box of
\* cv2.minAreaRect(c) drawn as a contour, then four circles at the middles
\* of its sides and the two lines joining opposite ones.
RECURSIVE BoxStrokes(_, _, _)
BoxStrokes(cnts, i, show_midpoints) ==
    IF i > Len(cnts) THEN << >>
    ELSE <<Stroke("drawContours of minAreaRect", cnts[i], <<0, 255, 0>>, 2, "")>>
         \o (IF show_midpoints
             THEN <<Stroke("circle x 4", cnts[i], <<255, 0, 0>>, -1, ""),
                    Stroke("line x 2", cnts[i], <<255, 0, 255>>, 2, "")>>
             ELSE << >>)
         \o BoxStrokes(cnts, i + 1, show_midpoints)

\* PParser.draw_contours(image, cnts, show_midpoints=...): the raster
\* returned, and the array passed as image after the call.
draw_contours(img, cnts, show_midpoints) ==
    [err |-> "",
     result |-> Painted(img, BoxStrokes(cnts, 1, show_midpoints)),
     image |-> AfterDrawing(img, Painted(img, BoxStrokes(cnts, 1, show_midpoints)))]

VARIABLES
    original_image,   \* PParser.original_image
    image,            \* PParser.image
    processed_image,  \* PParser.processed_image
    cleaned_image,    \* PParser.cleaned_image
    staff_lines,      \* the caller's collection: the last list find_staff_lines returned
    passed,           \* the list last passed to find_notes, as positions in staff_lines
    call,             \* the last call: its name, its error ("" when it returned), its parameters
    nfind,            \* find_notes calls made on staff_lines
    fc_image,         \* the image a caller passes to find_contours
    fc,               \* the last find_contours call on fc_image: parameters and outcome
    fc_prev,          \* the find_contours call before it
    grp_contours,     \* the contours a caller passes to group_note_components
    grp,              \* the last group_note_components call on them: parameters and outcome
    ex_image,         \* the image a caller passes to extract_contours
    ex_contours,      \* the contours it passes with it
    ex,               \* the last extract_contours call on them: parameters and outcome
    drawn,            \* what the last draw_staff_lines call returned
    lines_page,       \* the page the caller's staff_lines were detected on
    params,           \* the params argument a caller gives parse_music_sheet
    parsed            \* the last parse_music_sheet call with it: its outcome

parser_vars == <<original_image, image, processed_image, cleaned_image>>
caller_vars == <<staff_lines, passed, call, nfind, lines_page>>
contour_vars == <<fc_image, fc, fc_prev>>
group_vars == <<grp_contours, grp>>
extract_vars == <<ex_image, ex_contours, ex>>
app_vars == <<params, parsed>>
vars == <<parser_vars, caller_vars, contour_vars, group_vars, extract_vars, drawn, app_vars>>

NoParams == NoteParams(0, 0, 0, 0, 0)
NoCall == [d |-> 0, a |-> 0, p |-> 0, err |-> "none", cnts |-> << >>]
NoGrouping == [called |-> FALSE, max_horizontal_distance |-> 0,
               overlap_threshold |-> 0, groups |-> << >>, out |-> << >>]

\* No caller of find_contours, and none of group_note_components.
ContourIdle == fc_image = None /\ fc = NoCall /\ fc_prev = NoCall
GroupIdle == grp_contours = << >> /\ grp = NoGrouping
NoExtract == [called |-> FALSE, axis |-> 0, full_height |-> FALSE,
              err |-> "none", regions |-> << >>]
ExtractIdle == ex_image = None /\ ex_contours = << >> /\ ex = NoExtract

\* No caller of parse_music_sheet.
NoDict == [given |-> FALSE, dict |-> << >>]
NotParsed == [called |-> FALSE, lines |-> 0, err |-> "none", key |-> "", used |-> << >>]
AppIdle == params = NoDict /\ parsed = NotParsed

\* A PParser just constructed, and a caller that has called nothing yet.
ParserFresh ==
    /\ original_image = None
    /\ image = None
    /\ processed_image = None
    /\ cleaned_image = None
    /\ staff_lines = << >>
    /\ passed = << >>
    /\ call = [op |-> "PParser", err |-> "", prm |-> NoParams]
    /\ nfind = 0
    /\ drawn = None
    /\ lines_page = None

ParserInit == ParserFresh /\ AppIdle

Init ==
    /\ ParserInit
    /\ ContourIdle
    /\ GroupIdle
    /\ ExtractIdle

\* The three attributes load_image works on.
Self == [original_image |-> original_image, image |-> image,
         processed_image |-> processed_image]

\* parser.load_image(input_source), whatever the input and its outcome
Load(input_source) ==
    /\ LET r == load_image(Self, input_source)
       IN  /\ original_image' = r.original_image
           /\ image' = r.image
           /\ processed_image' = r.processed_image
           /\ call' = [op |-> "load_image", err |-> r.err, prm |-> NoParams]
    /\ UNCHANGED <<cleaned_image, staff_lines, passed, nfind, lines_page>>
    /\ UNCHANGED <<contour_vars, group_vars, extract_vars, drawn, app_vars>>

\* The first load_image of a pipeline, with a two-dimensional array
LoadImage(page) ==
    /\ original_image = None
    /\ Load(ArrayInput(page))

\* staff_lines = parser.find_staff_lines(d, a, p): the caller detects the
\* staves, possibly more than once, before it looks for notes.
FindStaffLines(d, a, p) ==
    /\ original_image # None
    /\ nfind = 0
    /\ LET r == find_staff_lines(image, processed_image, d, a, p)
       IN  /\ call' = [op |-> "find_staff_lines", err |-> r.err, prm |-> NoParams]
           /\ IF r.err = ""
              THEN staff_lines' = r.staff_lines
              ELSE UNCHANGED staff_lines
    /\ lines_page' = image
    /\ UNCHANGED <<parser_vars, passed, nfind, contour_vars, group_vars, extract_vars, drawn, app_vars>>

\* parser.find_notes(sel of staff_lines, d, a, p, mhd, thr); a caller that
\* calls it again does so with the same arguments.
FindNotes(sel, prm) ==
    /\ original_image # None
    /\ nfind < MaxFindNotes
    /\ nfind > 0 => prm = call.prm /\ sel = passed
    /\ LET r == find_notes(staff_lines, sel, image, processed_image, prm)
       IN  /\ staff_lines' = r.heap
           /\ call' = [op |-> "find_notes", err |-> r.err, prm |-> prm]
           /\ cleaned_image' = r.cleaned
    /\ passed' = sel
    /\ nfind' = nfind + 1
    /\ UNCHANGED <<original_image, image, processed_image, lines_page>>
    /\ UNCHANGED <<contour_vars, group_vars, extract_vars, drawn, app_vars>>

Next ==
    \/ \E page \in Pages : LoadImage(page)
    \/ \E d \in StageDilate, a \in StageMinArea, p \in StagePad :
           FindStaffLines(d, a, p)
    \/ \E sel \in Selections(Len(staff_lines)) :
       \E d \in StageDilate, a \in StageMinArea, p \in StagePad,
          g \in Groupings :
           FindNotes(sel, NoteParams(d, a, p, g[1], g[2]))

Spec == Init /\ [][Next]_vars

----------------------------------------------------------------------------
(* Two page pipelines interleaved on one PParser: the caller detects the   *)
(* staves of one page, loads another page, and then looks for the notes of *)
(* the staff lines it holds.                                               *)

\* The pages loaded in between: the second blob alone, and the lower ruling
\* line with its two heads.
ReloadPages ==
    {Image(PageH, PageW, Grid(PageH, PageW) \ Marks[2]),
     Image(PageH, PageW, Grid(PageH, PageW) \ Marks[6])}

\* parser.load_image(page) right after find_staff_lines returned
Reload(page) ==
    /\ call.op = "find_staff_lines" /\ call.err = ""
    /\ Load(ArrayInput(page))

\* The first find_notes call on the staff lines held
FirstFindNotes(sel, prm) == nfind = 0 /\ FindNotes(sel, prm)

InterleaveNext ==
    \/ \E page \in Pages : LoadImage(page)
    \/ \E d \in StageDilate, a \in StageMinArea, p \in StagePad :
           FindStaffLines(d, a, p)
    \/ \E page \in ReloadPages : Reload(page)
    \/ \E sel \in Selections(Len(staff_lines)) :
       \E d \in StageDilate, a \in StageMinArea, p \in StagePad,
          g \in Groupings :
           FirstFindNotes(sel, NoteParams(d, a, p, g[1], g[2]))

InterleaveSpec == Init /\ [][InterleaveNext]_vars

----------------------------------------------------------------------------
(* find_contours on its own: a caller holds an image with bright           *)
(* foreground (an inverted page) and calls find_contours on it, again and  *)
(* again with another pad_size, as tests/test_parser.py does.              *)

\* A synthetic image with two filled rectangles, 3x2 and 2x2 pixels: their
\* contours enclose the areas 2 and 1 (cv2.contourArea measures the polygon
\* through the pixel centres).
TwoRectangles == Image(PageH, PageW, Rect(0, 0, 3, 2) \cup Rect(4, 3, 2, 2))

ContourImages == {bitwise_not(page) : page \in Pages} \cup {TwoRectangles}

ContourInit ==
    /\ ParserInit
    /\ fc_image \in ContourImages
    /\ fc = NoCall
    /\ fc_prev = NoCall
    /\ GroupIdle
    /\ ExtractIdle

\* find_contours(fc_image, d, a, p); a caller that calls it again keeps
\* dilate_iterations and min_contour_area.
FindContours(d, a, p) ==
    /\ fc # NoCall => d = fc.d /\ a = fc.a
    /\ LET r == find_contours(fc_image, d, a, p)
       IN  fc' = [d |-> d, a |-> a, p |-> p, err |-> r.err, cnts |-> r.cnts]
    /\ fc_prev' = fc
    /\ UNCHANGED <<fc_image, parser_vars, caller_vars, group_vars, extract_vars, drawn, app_vars>>

ContourNext ==
    \E d \in DilateIterations, a \in MinContourAreas, p \in PadSizes :
        FindContours(d, a, p)

ContourSpec == ContourInit /\ [][ContourNext]_vars

----------------------------------------------------------------------------
(* group_note_components on its own: a caller holds a list of contours and *)
(* calls group_note_components on it with different parameters.            *)

\* The contour cv2 gives for a filled rectangle of w x h pixels at (x, y).
RectContour(x, y, w, h) ==
    << <<x, y>>, <<x, y + h - 1>>, <<x + w - 1, y + h - 1>>, <<x + w - 1, y>> >>

\* The contour cv2 gives for a diamond of five pixels centred at (x, y).
DiamondContour(x, y) ==
    << <<x, y - 1>>, <<x - 1, y>>, <<x, y + 1>>, <<x + 1, y>> >>

GroupShapes == <<
    RectContour(0, 0, 3, 3),      \* three aligned rectangles of width 3,
    RectContour(5, 0, 3, 3),      \*   with left edges at 0, 5 and 50
    RectContour(50, 0, 3, 3),
    RectContour(0, 0, 20, 10),    \* a wide rectangle,
    RectContour(2, 2, 3, 3),      \*   a small one inside its left part,
    RectContour(18, 0, 3, 3),     \*   and one across its right edge
    DiamondContour(31, 1) >>

\* The lists passed in: at most MaxGroupInputs different shapes, in any order.
GroupInputs ==
    {[k \in DOMAIN q |-> GroupShapes[q[k]]] :
        q \in {r \in UNION {[1..n -> DOMAIN GroupShapes] : n \in 0..MaxGroupInputs} :
                  \A i \in DOMAIN r, j \in DOMAIN r : i # j => r[i] # r[j]}}

\* max_horizontal_distance, and overlap_threshold in tenths.
GroupDistances == {0, 2, 10}
GroupThresholds == {2, 8}

GroupInit ==
    /\ ParserInit
    /\ ContourIdle
    /\ grp_contours \in GroupInputs
    /\ grp = NoGrouping
    /\ ExtractIdle

\* group_note_components(grp_contours, mhd, thr)
GroupNoteComponents(mhd, thr) ==
    /\ grp' = [called |-> TRUE, max_horizontal_distance |-> mhd,
               overlap_threshold |-> thr,
               groups |-> Groups(grp_contours, mhd, thr),
               out |-> group_note_components(grp_contours, mhd, thr)]
    /\ UNCHANGED <<grp_contours, parser_vars, caller_vars, contour_vars, extract_vars, drawn, app_vars>>

GroupNext ==
    \E mhd \in GroupDistances, thr \in GroupThresholds :
        GroupNoteComponents(mhd, thr)

GroupSpec == GroupInit /\ [][GroupNext]_vars

----------------------------------------------------------------------------
(* load_image on its own: a caller loads one input after another, valid or *)
(* not, and draws the page in between.                                     *)

\* Arrays of no pixels: shapes (0, 0) and (0, PageW).
EmptyArrays == {Image(0, 0, {}), Image(0, PageW, {})}

\* The inputs: pages as arrays, arrays of no pixels, paths of files holding
\* a page, a path cv2.imread cannot read, and a value of another type.
LoadInputs ==
    {ArrayInput(page) : page \in Pages}
        \cup {ArrayInput(img) : img \in EmptyArrays}
        \cup {PathInput(Colour(page)) : page \in Pages}
        \cup {PathInput(None), OtherInput}

\* parser.draw_staff_lines(parser.original_image, staff_lines, show...)
DrawStaffLines(show) ==
    /\ LET r == draw_staff_lines(original_image, staff_lines, show)
       IN  /\ drawn' = r.result
           /\ original_image' = r.original_image
           /\ call' = [op |-> "draw_staff_lines", err |-> r.err, prm |-> NoParams]
    /\ UNCHANGED <<image, processed_image, cleaned_image>>
    /\ UNCHANGED <<staff_lines, passed, nfind, lines_page>>
    /\ UNCHANGED <<contour_vars, group_vars, extract_vars, app_vars>>

LoadNext ==
    \/ \E input_source \in LoadInputs : Load(input_source)
    \/ \E show \in ShowFlags : DrawStaffLines(show)

LoadSpec == Init /\ [][LoadNext]_vars

----------------------------------------------------------------------------
(* The views: a caller runs the pipeline on a page, takes the contours of  *)
(* the page, and then draws, as test_visualization does.                   *)

\* Nothing has been drawn and the page's contours have not been taken.
BeforeViews == drawn = None /\ fc = NoCall

\* contours = parser.find_contours(parser.processed_image, 0, 0, 0)
PageContours ==
    /\ original_image # None
    /\ drawn = None
    /\ LET r == find_contours(processed_image, 0, 0, 0)
       IN  fc' = [d |-> 0, a |-> 0, p |-> 0, err |-> r.err, cnts |-> r.cnts]
    /\ fc_prev' = fc
    /\ call' = [op |-> "find_contours", err |-> fc'.err, prm |-> NoParams]
    /\ UNCHANGED <<fc_image, parser_vars, staff_lines, passed, nfind, lines_page>>
    /\ UNCHANGED <<group_vars, extract_vars, drawn, app_vars>>

\* parser.draw_contours(parser.original_image, contours, show_midpoints=...)
DrawContours(show_midpoints) ==
    /\ original_image # None
    /\ fc # NoCall /\ fc.err = ""
    /\ LET r == draw_contours(original_image, fc.cnts, show_midpoints)
       IN  /\ drawn' = r.result
           /\ original_image' = r.image
           /\ call' = [op |-> "draw_contours", err |-> r.err, prm |-> NoParams]
    /\ UNCHANGED <<image, processed_image, cleaned_image>>
    /\ UNCHANGED <<staff_lines, passed, nfind, lines_page>>
    /\ UNCHANGED <<contour_vars, group_vars, extract_vars, app_vars>>

ViewNext ==
    \/ \E page \in Pages : LoadImage(page)
    \/ \E d \in StageDilate, a \in StageMinArea, p \in StagePad :
           BeforeViews /\ FindStaffLines(d, a, p)
    \/ \E d \in StageDilate, a \in StageMinArea, p \in StagePad,
          g \in Groupings :
           /\ BeforeViews
           /\ FirstFindNotes([i \in DOMAIN staff_lines |-> i],
                             NoteParams(d, a, p, g[1], g[2]))
    \/ PageContours
    \/ \E show_midpoints \in BOOLEAN : DrawContours(show_midpoints)
    \/ \E show \in ShowFlags : DrawStaffLines(show)

ViewSpec == Init /\ [][ViewNext]_vars

----------------------------------------------------------------------------
(* extract_contours on its own: a caller holds an image and the contours   *)
(* found in it, or no contours, and calls extract_contours on them, as     *)
(* tests/test_parser.py does.                                              *)

\* What find_contours gives for an image, and nothing when it raises.
ContoursFound(img) == find_contours(img, 0, 0, 0).cnts

\* The same with pad_size = 1, as parse_music_sheet does for a
\* staff_pad_size or note_pad_size of 1.
ContoursFoundPadded(img) == find_contours(img, 0, 0, 1).cnts

\* The axis values passed: the two sorting axes and two other values.
Axes == {-1, 0, 1, 2}

ExtractInit ==
    /\ ParserInit
    /\ ContourIdle
    /\ GroupIdle
    /\ ex_image \in ContourImages
    /\ ex_contours \in {<< >>, ContoursFound(ex_image), ContoursFoundPadded(ex_image)}
    /\ ex = NoExtract

\* extract_contours(ex_image, ex_contours, axis, full_height)
ExtractContours(axis, full_height) ==
    /\ LET r == extract_contours(ex_image, ex_contours, axis, full_height)
       IN  ex' = [called |-> TRUE, axis |-> axis, full_height |-> full_height,
                  err |-> r.err, regions |-> r.regions]
    /\ UNCHANGED <<ex_image, ex_contours, parser_vars, caller_vars,
                   contour_vars, group_vars, drawn, app_vars>>

ExtractNext ==
    \E axis \in Axes, full_height \in BOOLEAN :
        ExtractContours(axis, full_height)

ExtractSpec == ExtractInit /\ [][ExtractNext]_vars

----------------------------------------------------------------------------
(* parse_music_sheet and its params dictionary.  The page reaches this     *)
(* part of the model as the number of staff lines detected on it: the keys *)
(* of the note stage are read once per staff line, inside the loop.        *)

ParamKeys ==
    {"resize_max_dim", "staff_dilate_iterations", "staff_min_contour_area",
     "staff_pad_size", "note_dilate_iterations", "note_min_contour_area",
     "note_pad_size", "max_horizontal_distance", "overlap_threshold"}

\* Lines 12-23: the dictionary used when params is None (overlap_threshold
\* in tenths).
Defaults ==
    [resize_max_dim |-> 1200, staff_dilate_iterations |-> 3,
     staff_min_contour_area |-> 10000, staff_pad_size |-> 0,
     note_dilate_iterations |-> 2, note_min_contour_area |-> 50,
     note_pad_size |-> 0, max_horizontal_distance |-> 10,
     overlap_threshold |-> 8]

\* A caller's own value for a key: one that is not the default.
Chosen(k) == Defaults[k] + 1

\* The dictionaries passed: None, and one for every subset of the keys.
ParamDicts ==
    {NoDict} \cup {[given |-> TRUE, dict |-> [k \in S |-> Chosen(k)]] :
                      S \in SUBSET ParamKeys}

\* The keys in the order parse_music_sheet indexes params: lines 25 and
\* 29-31, and lines 55-58 when the loop body runs at all.
KeysRead(lines) ==
    <<"resize_max_dim", "staff_dilate_iterations", "staff_min_contour_area",
      "staff_pad_size">> \o
    (IF lines > 0
     THEN <<"note_dilate_iterations", "note_min_contour_area",
            "note_pad_size", "max_horizontal_distance", "overlap_threshold">>
     ELSE << >>)

\* params[k]
Lookup(dict, k) == IF k \in DOMAIN dict THEN [err |-> "", value |-> dict[k]] ELSE [err |-> "KeyError", value |-> 0]

\* The dictionary lines 12-23 leave in params.
Effective(prm) == IF prm.given THEN prm.dict ELSE Defaults

\* The first position of KeysRead whose lookup raises, 0 when none does.
FirstKeyError(dict, keys) ==
    LET bad == {i \in DOMAIN keys : Lookup(dict, keys[i]).err # ""}
    IN  IF bad = {} THEN 0 ELSE CHOOSE i \in bad : \A j \in bad : i <= j

\* parse_music_sheet(image, progress_bar, prm) on a page with `lines` staves:
\* the values it reads from params, up to the first lookup that raises.
parse_music_sheet(prm, lines) ==
    [called |-> TRUE,
     lines |-> lines,
     err |-> IF FirstKeyError(Effective(prm), KeysRead(lines)) = 0 THEN ""
             ELSE "KeyError",
     key |-> IF FirstKeyError(Effective(prm), KeysRead(lines)) = 0 THEN ""
             ELSE KeysRead(lines)[FirstKeyError(Effective(prm), KeysRead(lines))],
     used |-> [k \in {KeysRead(lines)[i] : i \in
                        {j \in DOMAIN KeysRead(lines) :
                            \/ FirstKeyError(Effective(prm), KeysRead(lines)) = 0
                            \/ j < FirstKeyError(Effective(prm), KeysRead(lines))}}
                 |-> Lookup(Effective(prm), k).value]]

\* The numbers of staff lines a page gives: none, one, two.
LineCounts == {0, 1, 2}

AppInit ==
    /\ ParserFresh
    /\ ContourIdle
    /\ GroupIdle
    /\ ExtractIdle
    /\ params \in ParamDicts
    /\ parsed = NotParsed

\* parse_music_sheet(image, progress_bar, params)
ParseMusicSheet(lines) ==
    /\ parsed' = parse_music_sheet(params, lines)
    /\ UNCHANGED <<params, parser_vars, caller_vars, contour_vars, group_vars, extract_vars, drawn>>

AppNext == \E lines \in LineCounts : ParseMusicSheet(lines)

AppSpec == AppInit /\ [][AppNext]_vars

----------------------------------------------------------------------------
(* The properties.                                                         *)

Staves == DOMAIN staff_lines
NotesOf(s) == staff_lines[s].notes
\* The positions <<staff, note>> of all notes held by the collection.
NotePositions == {<<s, j>> : s \in Staves, j \in 1..PageW * PageH} \cap
                 UNION {{<<s, j>> : j \in DOMAIN NotesOf(s)} : s \in Staves}
NoteAt(pos) == NotesOf(pos[1])[pos[2]]

StaffLinesReturned == call.op = "find_staff_lines" /\ call.err = ""

\* find_staff_lines, then exactly one find_notes call on the whole list, which returned.
FirstFullCall ==
    /\ nfind = 1
    /\ call.op = "find_notes" /\ call.err = ""
    /\ passed = [i \in Staves |-> i]

\* C1, as stated: after find_staff_lines the staff at position i has index i
\* and the top y of the staff bounds is strictly increasing with the index.
C1_StrictlyIncreasingY ==
    StaffLinesReturned =>
        /\ \A i \in Staves : staff_lines[i].index = i - 1
        /\ \A i \in Staves : i + 1 \in Staves =>
               staff_lines[i].bounds[2] < staff_lines[i + 1].bounds[2]

\* C1, amended: after find_staff_lines the staff at position i has index i
\* and the top y of the staff bounds never decreases with the index (two
\* staves can start on the same row).
C1_StaffIndexAndOrder ==
    StaffLinesReturned =>
        /\ \A i \in Staves : staff_lines[i].index = i - 1
        /\ \A i \in Staves : i + 1 \in Staves =>
               staff_lines[i].bounds[2] <= staff_lines[i + 1].bounds[2]

\* Two staves were found, the upper one further right than the lower one.
C1_Witness ==
    /\ StaffLinesReturned
    /\ Len(staff_lines) >= 2
    /\ staff_lines[1].bounds[2] < staff_lines[2].bounds[2]
    /\ staff_lines[1].bounds[1] > staff_lines[2].bounds[1]

\* C2: after find_staff_lines and one find_notes call on its result, the
\* note at position j of a staff has relative_index j, and the x of the
\* note bounds never decreases along a staff's notes.
C2_RelativeIndexAndOrder ==
    FirstFullCall =>
        \A s \in Staves :
            /\ \A j \in DOMAIN NotesOf(s) : NotesOf(s)[j].relative_index = j - 1
            /\ \A j \in DOMAIN NotesOf(s) : j + 1 \in DOMAIN NotesOf(s) =>
                   NotesOf(s)[j].bounds[1] <= NotesOf(s)[j + 1].bounds[1]

\* A staff got two notes or more, at different x.
C2_Witness ==
    /\ FirstFullCall
    /\ \E s \in Staves : /\ Len(NotesOf(s)) >= 2
                         /\ NotesOf(s)[1].bounds[1] < NotesOf(s)[2].bounds[1]

\* C3: after find_staff_lines and one find_notes call, the Note.index values
\* of the page are exactly 0..N-1 and increase strictly in the order of
\* (staff.index, relative_index).
C3_GlobalIndex ==
    FirstFullCall =>
        /\ {NoteAt(pos).index : pos \in NotePositions}
               = 0..(Cardinality(NotePositions) - 1)
        /\ \A p1 \in NotePositions, p2 \in NotePositions :
               (\/ staff_lines[p1[1]].index < staff_lines[p2[1]].index
                \/ /\ staff_lines[p1[1]].index = staff_lines[p2[1]].index
                   /\ NoteAt(p1).relative_index < NoteAt(p2).relative_index)
               => NoteAt(p1).index < NoteAt(p2).index

\* Two staves with notes, the second with two or more.
C3_Witness ==
    /\ FirstFullCall
    /\ Len(staff_lines) >= 2
    /\ Len(NotesOf(1)) >= 1
    /\ Len(NotesOf(2)) >= 2

\* C4, as stated: in every reachable state no two notes held by the
\* collection have the same index.
C4_UniqueIndex ==
    \A p1 \in NotePositions, p2 \in NotePositions :
        p1 # p2 => NoteAt(p1).index # NoteAt(p2).index

NoteBounds(st) == [j \in DOMAIN st.notes |-> st.notes[j].bounds]

\* C5, as stated: a second find_notes call with the same arguments on the
\* collection the first call populated leaves every staff's notes list with
\* the same length and the same sequence of bounds.
C5_RepeatKeepsNotes ==
    [][(/\ nfind = 1 /\ call.op = "find_notes" /\ call.err = ""
        /\ nfind' = 2 /\ call'.op = "find_notes" /\ call'.err = ""
        /\ call'.prm = call.prm /\ passed' = passed)
       => \A s \in Staves :
              NoteBounds(staff_lines'[s]) = NoteBounds(staff_lines[s])]_vars

\* C6: every note's absolute_position is its relative_position plus the
\* origin of the bounds of the staff that holds it.
C6_AbsolutePosition ==
    \A pos \in NotePositions :
        NoteAt(pos).absolute_position =
            <<NoteAt(pos).relative_position[1] + staff_lines[pos[1]].bounds[1],
              NoteAt(pos).relative_position[2] + staff_lines[pos[1]].bounds[2]>>

\* A note in a staff whose bounds start away from the page's origin.
C6_Witness ==
    \E pos \in NotePositions :
        /\ staff_lines[pos[1]].bounds[1] > 0
        /\ staff_lines[pos[1]].bounds[2] > 0

\* C7, as stated: for every list passed to find_notes, every note appended
\* to a staff has line_index equal to that staff's index.
C7_LineIndex ==
    \A pos \in NotePositions :
        NoteAt(pos).line_index = staff_lines[pos[1]].index

\* The contours that do not touch the border of the image.
Inner(cnts, img) ==
    {c \in Range(cnts) :
        LET r == boundingRect(c)
        IN  /\ r[1] > 0 /\ r[2] > 0
            /\ r[1] + r[3] < img.w /\ r[2] + r[4] < img.h}

\* C9, as stated: find_contours with pad_size > 0 returns, for the contours
\* that do not touch the image border, the bounding boxes find_contours
\* returns with pad_size = 0 and the same other parameters.
C9_PaddingRoundTrip ==
    (/\ fc_prev.err = "" /\ fc.err = ""
     /\ fc_prev.p = 0 /\ fc.p > 0
     /\ fc.d = fc_prev.d /\ fc.a = fc_prev.a)
    => {boundingRect(c) : c \in Inner(fc_prev.cnts, fc_image)}
           = {boundingRect(c) : c \in Inner(fc.cnts, fc_image)}

\* The external contours cv2 finds in the padded, dilated image of the last call.
Detected == findContours(dilate(add_padding(fc_image, fc.p), fc.d))

IsRectangle(c) ==
    LET r == boundingRect(c)
    IN  c = << <<r[1], r[2]>>, <<r[1], r[2] + r[4] - 1>>,
               <<r[1] + r[3] - 1, r[2] + r[4] - 1>>, <<r[1] + r[3] - 1, r[2]>> >>

\* The image of the last call holds exactly two contours, both rectangles,
\* one of area hi and one of area lo.
TwoRectanglesOfArea(hi, lo) ==
    /\ fc # NoCall
    /\ Len(Detected) = 2
    /\ \A c \in Range(Detected) : IsRectangle(c)
    /\ {contourArea2(c) : c \in Range(Detected)} = {2 * hi, 2 * lo}

MemberRects == [g \in DOMAIN grp.groups |->
                   [k \in DOMAIN grp.groups[g] |-> grp.groups[g][k][2]]]

\* The list passed in holds three vertically aligned rectangles of width 3
\* with left edges at x = 0, 5 and 50.
ThreeRectangles ==
    /\ Len(grp_contours) = 3
    /\ Range(grp_contours) = {GroupShapes[1], GroupShapes[2], GroupShapes[3]}

\* C12, as stated: for three vertically aligned rectangles of width 3 at
\* x = 0, 5 and 50 and max_horizontal_distance = 10, group_note_components
\* merges the first two, keeps the third apart, and returns 2 contours.
C12_MergeScenario ==
    (grp.called /\ grp.max_horizontal_distance = 10 /\ ThreeRectangles) =>
        /\ Len(grp.out) = 2
        /\ MemberRects = << << <<0, 0, 3, 3>>, <<5, 0, 3, 3>> >>,
                            << <<50, 0, 3, 3>> >> >>

\* A contour that is the rectangle [(xmin,ymin),(xmax,ymin),(xmax,ymax),(xmin,ymax)].
IsMergedRectangle(c) ==
    /\ Len(c) = 4
    /\ c[1][1] <= c[2][1] /\ c[1][2] <= c[3][2]
    /\ c = << c[1], <<c[2][1], c[1][2]>>, <<c[2][1], c[3][2]>>,
              <<c[1][1], c[3][2]>> >>

\* C13, as stated: every contour group_note_components returns, also one
\* that stands for a group of a single input contour, is the 4-point
\* axis-aligned rectangle [(xmin,ymin),(xmax,ymin),(xmax,ymax),(xmin,ymax)].
C13_AlwaysRectangle ==
    grp.called => \A g \in DOMAIN grp.out : IsMergedRectangle(grp.out[g])

\* The horizontal gap between a member's right edge and a component's left
\* edge, both given by their bounding rectangles <<x, y, w, h>>.
Gap(member, rect) == rect[1] - (member[1] + member[3])

\* The vertical extents of the two rectangles overlap (line 292).
VerticalOverlap(member, rect) ==
    rect[2] <= member[2] + member[4] /\ member[2] <= rect[2] + rect[4]

\* The intersection of the two rectangles over the smaller of their areas
\* exceeds overlap_threshold (given in tenths).
OverlapAbove(member, rect, overlap_threshold) ==
    LET iw == Min({rect[1] + rect[3], member[1] + member[3]}) - Max({rect[1], member[1]})
        ih == Min({rect[2] + rect[4], member[2] + member[4]}) - Max({rect[2], member[2]})
        intersection_area == IF iw > 0 /\ ih > 0 THEN iw * ih ELSE 0
        smaller == Min({rect[3] * rect[4], member[3] * member[4]})
    IN  smaller > 0 /\ intersection_area * 10 > overlap_threshold * smaller

\* The two merge signals: the gap is at most max_horizontal_distance, or
\* the vertical extents overlap and the overlap ratio exceeds the threshold.
Signal(member, rect) ==
    \/ Gap(member, rect) <= grp.max_horizontal_distance
    \/ /\ VerticalOverlap(member, rect)
       /\ OverlapAbove(member, rect, grp.overlap_threshold)

\* The same with the gap strictly below max_horizontal_distance.
SignalBelow(member, rect) ==
    \/ Gap(member, rect) < grp.max_horizontal_distance
    \/ /\ VerticalOverlap(member, rect)
       /\ OverlapAbove(member, rect, grp.overlap_threshold)

\* C14, as stated: the current group is closed only when the next component
\* matches none of its members: the component that opens group g + 1
\* matches, by adjacency or by overlap, no member of group g.
C14_AnyMember ==
    grp.called =>
        \A g \in DOMAIN MemberRects : g + 1 \in DOMAIN MemberRects =>
            \A m \in DOMAIN MemberRects[g] :
                ~Signal(MemberRects[g][m], MemberRects[g + 1][1])

\* C15, as stated: a component is added to a group only if, for some member
\* of the group, the gap is below max_horizontal_distance or the vertical
\* extents overlap and the overlap ratio exceeds overlap_threshold.
C15_OnlyOnSignalBelow ==
    grp.called =>
        \A g \in DOMAIN MemberRects : \A k \in DOMAIN MemberRects[g] :
            k > 1 => \E m \in 1..(k - 1) :
                         SignalBelow(MemberRects[g][m], MemberRects[g][k])

\* C15, amended: a component is added to a group only if, for some member
\* of the group, the gap is at most max_horizontal_distance or the vertical
\* extents overlap and the overlap ratio exceeds overlap_threshold.
C15_OnlyOnSignal ==
    grp.called =>
        \A g \in DOMAIN MemberRects : \A k \in DOMAIN MemberRects[g] :
            k > 1 => \E m \in 1..(k - 1) :
                         Signal(MemberRects[g][m], MemberRects[g][k])

\* A call that merged two components into one group and kept another apart.
C15_Witness ==
    /\ grp.called
    /\ Len(MemberRects) >= 2
    /\ \E g \in DOMAIN MemberRects : Len(MemberRects[g]) >= 2

\* C16, as stated: zero detections are an empty sequence and never an
\* error: find_contours on an image with no contour above the area
\* threshold returns the empty sequence.
C16_EmptyNotError ==
    (fc # NoCall /\ \A c \in Range(Detected) : ~AreaAbove(c, fc.a)) =>
        fc.err = "" /\ fc.cnts = << >>

\* C17: an extract_contours call with an axis other than 0 or 1 raises
\* ValueError and returns no regions, whatever the image and the contour
\* list (the empty list included), and leaves both unchanged.
C17_InvalidAxis ==
    [][(ex'.called /\ ex'.axis \notin {0, 1}) =>
           /\ ex'.err = "ValueError"
           /\ ex'.regions = << >>
           /\ ex_image' = ex_image
           /\ ex_contours' = ex_contours]_vars

\* A call with axis = 2 on a list of two contours or more was refused.
C17_Witness ==
    /\ ex.called /\ ex.axis = 2 /\ ex.err = "ValueError"
    /\ Len(ex_contours) >= 2

\* C18: a find_contours call with a negative min_contour_area signals an
\* invalid-argument error and returns no contour.
C18_NegativeAreaRejected ==
    (fc # NoCall /\ fc.a < 0) => (fc.err # "" /\ fc.cnts = << >>)

\* C19: load_image returns normally only for a valid input: after a call
\* that raised nothing, original_image is an array of at least one pixel.
C19_OnlyValidInputReturns ==
    (call.op = "load_image" /\ call.err = "") =>
        (original_image # None /\ original_image.h > 0 /\ original_image.w > 0)

\* C20: a load_image call that fails leaves original_image, image and
\* processed_image as they were before the call.
C20_FailedLoadKeepsState ==
    [][(call'.op = "load_image" /\ call'.err # "") =>
           /\ original_image' = original_image
           /\ image' = image
           /\ processed_image' = processed_image]_vars

\* C21: the first find_notes call on staff lines detected on a page gives
\* the outcome and the notes that find_notes gives on that page, whatever
\* page was loaded after the staff lines were detected.
C21_NotesOfOwnPage ==
    [][(nfind = 0 /\ nfind' = 1 /\ call'.op = "find_notes") =>
           LET r == find_notes(staff_lines, passed', lines_page,
                               bitwise_not(lines_page), call'.prm)
           IN  call'.err = r.err /\ staff_lines' = r.heap]_vars

\* C22: parse_music_sheet fails for no params dictionary because a key is
\* absent, and every key it reads has the caller's value when the caller
\* gave one and the default otherwise.
C22_MissingKeysDefault ==
    parsed.called =>
        /\ parsed.err = ""
        /\ \A k \in DOMAIN parsed.used :
               parsed.used[k] = IF params.given /\ k \in DOMAIN params.dict
                                THEN params.dict[k] ELSE Defaults[k]

ExactRegion(img, x, y, w, h) ==
    Image(h, w, {<<p[1] - x, p[2] - y>> :
                    p \in {q \in img.on : /\ q[1] >= x /\ q[1] < x + w
                                          /\ q[2] >= y /\ q[2] < y + h}})

\* The orders of n contours that are ascending in key, ties in input order.
StableOrders(n, key) ==
    {pi \in [1..n -> 1..n] :
        /\ \A i, j \in 1..n : i # j => pi[i] # pi[j]
        /\ \A i, j \in 1..n : i < j =>
               \/ key[pi[i]] < key[pi[j]]
               \/ key[pi[i]] = key[pi[j]] /\ pi[i] < pi[j]}

\* C24: extract_contours with axis 0 or 1 returns one region per contour, in
\* ascending order of bounding-box x (axis 0) or y (axis 1), ties in input
\* order; a region is the contour's bounding box, or with full_height its
\* x-span over the whole image height.
C24_RegionPerContour ==
    (ex.called /\ ex.axis \in {0, 1}) =>
        /\ ex.err = ""
        /\ Len(ex.regions) = Len(ex_contours)
        /\ \E pi \in StableOrders(Len(ex_contours),
                                  [i \in DOMAIN ex_contours |->
                                      boundingRect(ex_contours[i])[ex.axis + 1]]) :
               \A i \in DOMAIN ex_contours :
                   LET b == boundingRect(ex_contours[pi[i]])
                   IN  ex.regions[i] =
                           IF ex.full_height
                           THEN ExactRegion(ex_image, b[1], 0, b[3], ex_image.h)
                           ELSE ExactRegion(ex_image, b[1], b[2], b[3], b[4])

\* C25: the contours find_contours returns are the detected contours above
\* the area threshold, shifted by -pad_size on both axes when pad_size > 0
\* (when _add_padding padded the image) and not shifted when pad_size <= 0.
C25_ShiftOnlyWhenPadded ==
    fc.err = "" =>
        Range(fc.cnts) =
            {IF fc.p > 0 THEN Shift(c, -fc.p, -fc.p) ELSE c :
                c \in {k \in Range(Detected) : contourArea2(k) > 2 * fc.a}}

\* A rectangle <<x, y, w, h>> that lies inside an image.
InsideImage(b, img) ==
    /\ b[1] >= 0 /\ b[2] >= 0
    /\ b[1] + b[3] <= img.w /\ b[2] + b[4] <= img.h

\* C26: every staff's bounds lie inside the page and its image has the
\* height and width of its bounds; every note's image has the height of
\* its staff's bounds and the width of the note's bounds.
C26_ImagesMatchBounds ==
    \A s \in Staves :
        /\ InsideImage(staff_lines[s].bounds, image)
        /\ staff_lines[s].image.h = staff_lines[s].bounds[4]
        /\ staff_lines[s].image.w = staff_lines[s].bounds[3]
        /\ \A j \in DOMAIN NotesOf(s) :
               /\ NotesOf(s)[j].image.h = staff_lines[s].bounds[4]
               /\ NotesOf(s)[j].image.w = NotesOf(s)[j].bounds[3]

\* C27: every note's bounds rectangle lies inside the bounds rectangle of
\* the staff that holds it.
C27_NoteInsideStaff ==
    \A pos \in NotePositions :
        LET n  == NoteAt(pos).bounds
            st == staff_lines[pos[1]].bounds
        IN  /\ st[1] <= n[1] /\ st[2] <= n[2]
            /\ n[1] + n[3] <= st[1] + st[3]
            /\ n[2] + n[4] <= st[2] + st[4]

\* A staff line's fields other than its notes list.
StaffFrame(st) == <<st.index, st.image, st.contour, st.bounds>>

\* C28: a find_notes call keeps the collection's length and order, every
\* staff line's index, image, contour and bounds, and every note already in
\* a notes list, at its position: it only appends to notes lists.
C28_OnlyAppends ==
    [][(call'.op = "find_notes" /\ nfind' = nfind + 1) =>
           /\ Len(staff_lines') = Len(staff_lines)
           /\ \A s \in Staves :
                  /\ StaffFrame(staff_lines'[s]) = StaffFrame(staff_lines[s])
                  /\ Len(staff_lines'[s].notes) >= Len(NotesOf(s))
                  /\ SubSeq(staff_lines'[s].notes, 1, Len(NotesOf(s))) = NotesOf(s)]_vars

\* A second find_notes call has returned, on a staff that held notes, and
\* has appended to them.
C28_Witness ==
    /\ nfind = 2 /\ call.op = "find_notes" /\ call.err = ""
    /\ \E s \in Staves : Len(NotesOf(s)) >= 2
    /\ Len(staff_lines) >= 2

\* The members of the groups from position i on, as one sequence of contours.
RECURSIVE Members(_, _)
Members(groups, i) ==
    IF i > Len(groups) THEN << >>
    ELSE [m \in DOMAIN groups[i] |-> groups[i][m][1]] \o Members(groups, i + 1)

\* C29: the groups of group_note_components, one after the other, are the
\* input in ascending order of bounding-box x (ties in input order): every
\* contour is in exactly one group, every group is a run of that order,
\* and the groups come in that order; no group is empty, there is one
\* output per group, and their number is 0 for an empty input and between
\* 1 and the number of inputs otherwise.
C29_GroupsPartitionInput ==
    grp.called =>
        /\ \E pi \in StableOrders(Len(grp_contours),
                                  [i \in DOMAIN grp_contours |->
                                      boundingRect(grp_contours[i])[1]]) :
               Members(grp.groups, 1) = [i \in DOMAIN grp_contours |-> grp_contours[pi[i]]]
        /\ \A g \in DOMAIN grp.groups : Len(grp.groups[g]) >= 1
        /\ Len(grp.out) = Len(grp.groups)
        /\ \A g, k \in DOMAIN grp.out :
               g < k => boundingRect(grp.out[g])[1] <= boundingRect(grp.out[k])[1]
        /\ Len(grp_contours) = 0 => Len(grp.out) = 0
        /\ Len(grp_contours) > 0 =>
               (1 <= Len(grp.out) /\ Len(grp.out) <= Len(grp_contours))

\* Three contours given out of order came out as two groups: one of two
\* members and one of a single member.
C29_Witness ==
    /\ grp.called
    /\ Len(grp_contours) = 3
    /\ boundingRect(grp_contours[1])[1] > boundingRect(grp_contours[2])[1]
    /\ Len(grp.groups) = 2
    /\ \E g \in DOMAIN grp.groups : Len(grp.groups[g]) = 2

\* The union of the bounding boxes of a group's members, as <<x, y, w, h>>.
UnionOfBounds(group) ==
    LET rects == {group[m][2] : m \in DOMAIN group}
        x == Min({r[1] : r \in rects})
        y == Min({r[2] : r \in rects})
    IN  <<x, y, Max({r[1] + r[3] : r \in rects}) - x,
                Max({r[2] + r[4] : r \in rects}) - y>>

\* C30: for a group of two members or more, the bounding rectangle of the
\* merged contour is the union of the members' bounding boxes.
C30_MergedBoundsAreUnion ==
    grp.called =>
        \A g \in DOMAIN grp.groups :
            Len(grp.groups[g]) >= 2 =>
                boundingRect(grp.out[g]) = UnionOfBounds(grp.groups[g])

====
